---- MODULE Spec2Model ----
(***************************************************************************)
(* Cross-Check Simulator (src/src/streamlit_app.py): the deterministic     *)
(* cost model, the tornado analysis, the cached Monte Carlo and Sobol      *)
(* runs, and the script's reruns.                                          *)
(*                                                                         *)
(* Python floats are modelled as exact rationals [n, d] in lowest terms    *)
(* with d > 0, so every formula below is the code's formula without        *)
(* rounding.  A raised exception is modelled as a result whose field       *)
(* `raised` names the exception.                                           *)
(***************************************************************************)
EXTENDS Integers, Sequences, FiniteSets, TLC

VARIABLES
    params,       \* module-level `params` (line 585): the current Parameter Set
    mc_cache,     \* st.cache_data store of run_mc   (line 590)
    sobol_cache,  \* st.cache_data store of run_sobol (line 645)
    now,          \* wall clock in seconds, read by the caches' TTL
    np_random,    \* state of NumPy's global RandomState (np.random.seed, line 684)
    page,         \* what the last script run computed and displayed
    call,         \* the last direct invocation of an analysis operation
    held          \* an earlier invocation's arguments and result, kept by the caller

vars == <<params, mc_cache, sobol_cache, now, np_random, page, call, held>>

----------------------------------------------------------------------------
(* Exact rational arithmetic standing for Python's float operators.        *)

RECURSIVE GCD(_, _)
GCD(a, b) == IF b = 0 THEN a ELSE GCD(b, a % b)

Abs(i) == IF i < 0 THEN -i ELSE i

\* n/d in lowest terms, d > 0 (d # 0 required).
Q(n, d) ==
    LET g == GCD(Abs(n), Abs(d))
        s == IF d < 0 THEN -1 ELSE 1
    IN  [n |-> s * (n \div g), d |-> s * (d \div g)]

Num(i) == [n |-> i, d |-> 1]
Zero == Num(0)
One == Num(1)

Mul(x, y) ==
    LET g1 == GCD(Abs(x.n), y.d)
        g2 == GCD(Abs(y.n), x.d)
    IN  [n |-> (x.n \div g1) * (y.n \div g2), d |-> (x.d \div g2) * (y.d \div g1)]

Add(x, y) ==
    LET g == GCD(x.d, y.d)
    IN  Q(x.n * (y.d \div g) + y.n * (x.d \div g), (x.d \div g) * y.d)

Neg(x) == [n |-> -x.n, d |-> x.d]
Sub(x, y) == Add(x, Neg(y))

\* x / y for y # 0; the callers test y = 0 first, as Python raises there.
Div(x, y) ==
    Mul(x, IF y.n < 0 THEN [n |-> -y.d, d |-> -y.n] ELSE [n |-> y.d, d |-> y.n])

Less(x, y) ==
    LET g == GCD(x.d, y.d)
    IN  x.n * (y.d \div g) < y.n * (x.d \div g)

Leq(x, y) == x = y \/ Less(x, y)
IsZero(x) == x.n = 0
QAbs(x) == [n |-> Abs(x.n), d |-> x.d]
QMax(x, y) == IF Less(x, y) THEN y ELSE x
QMin(x, y) == IF Less(y, x) THEN y ELSE x

\* The values f[1], ..., f[n] as a sequence.
RECURSIVE Tabulate(_, _)
Tabulate(f, n) == IF n = 0 THEN <<>> ELSE Append(Tabulate(f, n - 1), f[n])

----------------------------------------------------------------------------
(* Section 2: the deterministic model.                                     *)

ZeroDivisionError == [raised |-> "ZeroDivisionError"]

\* A Late schedule that leaves the hours as they are.
sched_T_full_hours(schedv) == One

\* (qual_T, qual_B) and (sched_T, sched_B), lines 433-434.
qual_T(qualv) == IF qualv = "Standard" THEN One ELSE Q(2, 3)
qual_B(qualv) == IF qualv = "Standard" THEN One ELSE Q(4, 5)
sched_T(schedv) == IF schedv = "OnTime" THEN One ELSE Q(2, 3)
sched_B(schedv) == IF schedv = "OnTime" THEN One ELSE Q(4, 5)

compute_metrics_flat_loss(kw) ==
    LET a_tot == Mul(Mul(kw.a1v, kw.a2v), kw.a3v)
        b_eff == Mul(Mul(kw.bv, qual_B(kw.qualv)), sched_B(kw.schedv))
        S_x == Sub(One, Mul(Sub(One, a_tot), Sub(One, b_eff)))
        T == Mul(Mul(Add(Add(kw.t1v, kw.t2v), kw.t3v), qual_T(kw.qualv)), sched_T(kw.schedv))
        C_x == Mul(T, Add(Add(One, kw.cross_ratio_v), kw.prep_post_ratio_v))
        C_loss_x == Add(C_x, Mul(kw.loss_unit_v, C_x))
    IN IF IsZero(S_x) THEN ZeroDivisionError
       ELSE [raised |-> "none", S |-> S_x, C |-> C_x, C_loss |-> C_loss_x, E |-> Div(C_x, S_x), E_total |-> Div(C_loss_x, S_x)]

\* Variants of compute_metrics: the checker path lowering the success rate,
\* and above, the rework loss charged on every evaluation.
compute_metrics_sign_flip(kw) ==
    LET a_tot == Mul(Mul(kw.a1v, kw.a2v), kw.a3v)
        b_eff == Mul(Mul(kw.bv, qual_B(kw.qualv)), sched_B(kw.schedv))
        S_x == Sub(One, Mul(Sub(One, a_tot), Add(One, b_eff)))
        T == Mul(Mul(Add(Add(kw.t1v, kw.t2v), kw.t3v), qual_T(kw.qualv)), sched_T(kw.schedv))
        C_x == Mul(T, Add(Add(One, kw.cross_ratio_v), kw.prep_post_ratio_v))
        C_loss_x == Add(C_x, Mul(Mul(kw.loss_unit_v, C_x), Sub(One, S_x)))
    IN IF IsZero(S_x) THEN ZeroDivisionError
       ELSE [raised |-> "none", S |-> S_x, C |-> C_x, C_loss |-> C_loss_x, E |-> Div(C_x, S_x), E_total |-> Div(C_loss_x, S_x)]

\* compute_metrics with success only when worker and checker both succeed.
compute_metrics_both_succeed(kw) ==
    LET a_tot    == Mul(Mul(kw.a1v, kw.a2v), kw.a3v)
        b_eff    == Mul(Mul(kw.bv, qual_B(kw.qualv)), sched_B(kw.schedv))
        S_x      == Mul(a_tot, b_eff)
        T        == Mul(Mul(Add(Add(kw.t1v, kw.t2v), kw.t3v), qual_T(kw.qualv)),
                        sched_T(kw.schedv))
        C_x      == Mul(T, Add(Add(One, kw.cross_ratio_v), kw.prep_post_ratio_v))
        C_loss_x == Add(C_x, Mul(Mul(kw.loss_unit_v, C_x), Sub(One, S_x)))
    IN  IF IsZero(S_x)
        THEN ZeroDivisionError
        ELSE [raised |-> "none", S |-> S_x, C |-> C_x, C_loss |-> C_loss_x,
              E |-> Div(C_x, S_x), E_total |-> Div(C_loss_x, S_x)]

\* compute_metrics(**kw), lines 417-449.  The float divisions of lines 447-448
\* raise ZeroDivisionError when S_x == 0; nothing is validated or clamped.
compute_metrics(kw) ==
    LET a_tot    == Mul(Mul(kw.a1v, kw.a2v), kw.a3v)
        b_eff    == Mul(Mul(kw.bv, qual_B(kw.qualv)), sched_B(kw.schedv))
        S_x      == Sub(One, Mul(Sub(One, a_tot), Sub(One, b_eff)))
        T        == Mul(Mul(Add(Add(kw.t1v, kw.t2v), kw.t3v), qual_T(kw.qualv)),
                        sched_T(kw.schedv))
        C_x      == Mul(T, Add(Add(One, kw.cross_ratio_v), kw.prep_post_ratio_v))
        C_loss_x == Add(C_x, Mul(Mul(kw.loss_unit_v, C_x), Sub(One, S_x)))
    IN  IF IsZero(S_x)
        THEN ZeroDivisionError
        ELSE [raised |-> "none", S |-> S_x, C |-> C_x, C_loss |-> C_loss_x,
              E |-> Div(C_x, S_x), E_total |-> Div(C_loss_x, S_x)]

----------------------------------------------------------------------------
(* Section 5: what the sidebar widgets allow (get_sidebar_params).         *)

Grades == {"Standard", "Low"}
Schedules == {"OnTime", "Late"}

\* Values of the a1, a2, a3 sliders (0.5 .. 1.0), lines 510-515.
StepSuccess == {Q(1, 2), One}
\* Values of the b0 slider (0.0 .. 1.0), line 530.
CheckerSkill == {Zero, Q(1, 2), One}
\* Values of the CR and PP sliders (0.0 .. 0.5), lines 532-543.
CrossRatios == {Zero, Q(3, 10)}
PrepPostRatios == {Zero, Q(2, 5)}
\* Values of the loss-unit slider (0.0 .. 50.0 in steps of 0.5), line 546.
LossUnits == {Zero, Q(1, 2), Num(2)}
\* Values of the three task-hour inputs (0 .. 200), lines 553-560.
TaskHours == {<<0, 0, 0>>, <<9, 9, 27>>}

\* The dict get_sidebar_params returns, lines 576-583.
SidebarParams(a1, a2, a3, b0, cr, pp, l, t, qual, sched, n, mc_var) ==
    [a1 |-> a1, a2 |-> a2, a3 |-> a3, b0 |-> b0,
     cross_ratio |-> cr, prep_post_ratio |-> pp, loss_unit |-> l,
     T1 |-> Num(t[1]), T2 |-> Num(t[2]), T3 |-> Num(t[3]),
     qual |-> qual, sched |-> sched, sample_n |-> n, mc_var |-> mc_var]

----------------------------------------------------------------------------
(* Random number generators.  A bit generator is modelled as a counter of  *)
(* RngModulus states; one draw advances the counter and yields one of four *)
(* levels, which the distributions map to a value: a normal draw to        *)
(* loc + scale * z with z from ZTable, a triangular draw to left, mode or  *)
(* right, a uniform draw to low or the midpoint of [low, high).            *)

RngModulus == 32

\* The state a generator has after seeding with `seed`.
Seeded(seed) == (seed + 5) % RngModulus

\* The state after one draw.
Advance(g) == (g + 1) % RngModulus

\* The state after k draws.
Skip(g, k) == (g + k) % RngModulus

\* The level (0..3) of the k-th draw (k >= 1) from state g.
Level(g, k) == (((7 * Skip(g, k) + 3) % RngModulus) * 4) \div RngModulus

\* A variant of mc_rng: NumPy's global generator as it stands.
mc_rng_global == np_random

\* Generator(PCG64DXSM(seed=0)), line 593: a generator of run_mc's own.
mc_rng == Seeded(0)

ZTable == <<Q(-10, 3), Zero, Zero, Q(10, 3)>>

\* rng.normal(loc, scale, N)[i], the array being drawn `off` draws after g.
normal(g, off, i, loc, scale) == Add(loc, Mul(scale, ZTable[Level(g, off + i) + 1]))

\* A triangular draw that can fall below left.
triangular_below_left(g, off, i, left, mode, right) ==
    CASE Level(g, off + i) = 0 -> Sub(left, Sub(right, left))
      [] Level(g, off + i) = 3 -> right
      [] OTHER -> mode

\* rng.triangular(left, mode, right, N)[i]: a value of [left, right].
triangular(g, off, i, left, mode, right) ==
    CASE Level(g, off + i) = 0 -> left
      [] Level(g, off + i) = 3 -> right
      [] OTHER -> mode

\* rng.uniform(low, high, N)[i]: a value of [low, high).
uniform(g, off, i, low, high) ==
    Add(low, Mul(Sub(high, low), Q(Level(g, off + i) \div 2, 2)))

\* A floor that is not applied.
np_clip_min_unfloored(x, lo) == x

\* ndarray.clip(lo, hi) and ndarray.clip(min=lo), elementwise.
np_clip(x, lo, hi) == QMin(QMax(x, lo), hi)
np_clip_min(x, lo) == QMax(x, lo)

\* NumPy's elementwise float division: x / 0 is inf or nan (with a
\* RuntimeWarning), not an exception.
Inf == [n |-> 1, d |-> 0]
NegInf == [n |-> -1, d |-> 0]
NaN == [n |-> 0, d |-> 0]
np_divide(x, y) ==
    IF IsZero(y)
    THEN (IF IsZero(x) THEN NaN ELSE IF x.n < 0 THEN NegInf ELSE Inf)
    ELSE Div(x, y)

----------------------------------------------------------------------------
(* Section 6: Monte Carlo simulation.                                      *)

\* Element i of each array run_mc draws, lines 593-623, for a generator
\* freshly seeded with 0 (line 593).
mc_draws(p, N, i) ==
    LET rng == mc_rng
        a1s == np_clip(normal(rng, 0, i, p.a1, QMax(Q(1, 100), Mul(p.a1, Q(3, 100)))),
                    Zero, One)
        a2s == np_clip(normal(rng, N, i, p.a2, QMax(Q(1, 100), Mul(p.a2, Q(3, 100)))),
                    Zero, One)
        a3s == np_clip(triangular(rng, 2 * N, i, Mul(p.a3, Q(9, 10)), p.a3,
                               Mul(p.a3, Q(11, 10))), Zero, One)
        b0s == uniform(rng, 3 * N, i, QMax(Zero, Sub(p.b0, Q(1, 10))),
                       QMin(One, Add(p.b0, Q(1, 10))))
        t1s == np_clip_min(normal(rng, 4 * N, i, p.T1, Mul(p.T1, Q(1, 10))), One)
        t2s == np_clip_min(normal(rng, 5 * N, i, p.T2, Mul(p.T2, Q(1, 10))), One)
        t3s == np_clip_min(normal(rng, 6 * N, i, p.T3, Mul(p.T3, Q(1, 10))), One)
        \* the draws each conditional array consumes
        nCR == IF Less(Zero, p.cross_ratio) THEN N ELSE 0
        nPP == IF Less(Zero, p.prep_post_ratio) THEN N ELSE 0
        CRs == IF Less(Zero, p.cross_ratio)
               THEN triangular(rng, 7 * N, i, Mul(p.cross_ratio, Q(4, 5)),
                               p.cross_ratio, Mul(p.cross_ratio, Q(6, 5)))
               ELSE Zero
        PPs == IF Less(Zero, p.prep_post_ratio)
               THEN triangular(rng, 7 * N + nCR, i, Mul(p.prep_post_ratio, Q(4, 5)),
                               p.prep_post_ratio, Mul(p.prep_post_ratio, Q(6, 5)))
               ELSE Zero
        Ls  == IF Less(Zero, p.loss_unit)
               THEN triangular(rng, 7 * N + nCR + nPP, i, Mul(p.loss_unit, Q(4, 5)),
                               p.loss_unit, Mul(p.loss_unit, Q(6, 5)))
               ELSE Zero
        nLs == IF Less(Zero, p.loss_unit) THEN N ELSE 0
    IN  [a1s |-> a1s, a2s |-> a2s, a3s |-> a3s, b0s |-> b0s, t1s |-> t1s,
         t2s |-> t2s, t3s |-> t3s, CRs |-> CRs, PPs |-> PPs, Ls |-> Ls,
         drawn |-> [CRs |-> nCR, PPs |-> nPP, Ls |-> nLs]]

\* The arithmetic of lines 625-636 on one row d of drawn values.
mc_arithmetic(d, p) ==
    LET qT  == IF p.qual = "Standard" THEN One ELSE Q(2, 3)
        qB  == IF p.qual = "Standard" THEN One ELSE Q(4, 5)
        sT  == IF p.sched = "OnTime" THEN One ELSE Q(2, 3)
        sB  == IF p.sched = "OnTime" THEN One ELSE Q(4, 5)
        a_tot == Mul(Mul(d.a1s, d.a2s), d.a3s)
        b_eff == Mul(Mul(d.b0s, qB), sB)
        Sval  == Sub(One, Mul(Sub(One, a_tot), Sub(One, b_eff)))
        Tval  == Mul(Mul(Add(Add(d.t1s, d.t2s), d.t3s), qT), sT)
        Cval  == Mul(Tval, Add(Add(One, d.CRs), d.PPs))
        Eval  == np_divide(Add(Cval, Mul(Mul(d.Ls, Cval), Sub(One, Sval))), Sval)
    IN  [E |-> Eval, S |-> Sval, C |-> Cval, L |-> d.Ls]

\* Element i of Evals, Svals, Cvals and Ls: the arithmetic on the i-th draws.
mc_sample(p, N, i) ==
    CHOOSE row \in {mc_arithmetic(d, p) : d \in {mc_draws(p, N, i)}} : TRUE

\* The number of leading elements of each Monte Carlo array that are
\* tabulated.
MaxRows == 2

ArrayLen(N) == IF N < MaxRows THEN N ELSE MaxRows

\* run_mc(p, N), lines 591-637: (Evals, Svals, Cvals, Ls).
run_mc(p, N) ==
    LET n    == ArrayLen(N)
        rows == Tabulate([i \in 1..n |-> mc_sample(p, N, i)], n)
    IN  [Evals |-> Tabulate([i \in 1..n |-> rows[i].E], n),
         Svals |-> Tabulate([i \in 1..n |-> rows[i].S], n),
         Cvals |-> Tabulate([i \in 1..n |-> rows[i].C], n),
         Ls |-> Tabulate([i \in 1..n |-> rows[i].L], n)]

\* The arrays run_mc draws before its arithmetic, lines 596-623, row by row.
mc_locals(p, N) == Tabulate([i \in 1..ArrayLen(N) |-> mc_draws(p, N, i)], ArrayLen(N))

\* st.cache_data(ttl=900), lines 590 and 645: a cache is a set of entries
\* [key, value, at]; an entry is served while it is younger than TTL.
TTL == 900

\* A variant of cache_key that leaves the grades out of the hash.
cache_key_without_grades(p, N) ==
    <<[p EXCEPT !.qual = "Standard", !.sched = "OnTime"], N>>

\* The key st.cache_data derives from a call: the hash of every argument.
cache_key(p, N) == <<p, N>>

cache_live(cache, t) == {e \in cache : t - e.at < TTL}

cache_hit(cache, key, t) == \E e \in cache_live(cache, t) : e.key = key

cache_get(cache, key, t) == (CHOOSE e \in cache_live(cache, t) : e.key = key).value

cache_put(cache, key, value, t) ==
    {e \in cache_live(cache, t) : e.key # key} \cup {[key |-> key, value |-> value, at |-> t]}

----------------------------------------------------------------------------
(* Section 7: Sobol global sensitivity.                                    *)

\* The default of run_sobol's parameter N, line 646.
SobolDefaultN == 10000

\* The nested helper clip(lo, hi, low, high, eps=1e-6), lines 652-657.
clip(lo, hi, low, high) ==
    LET lo_c == QMax(low, lo)
        hi_c == QMin(high, hi)
    IN  IF Leq(hi_c, lo_c) THEN <<lo_c, Add(lo_c, Q(1, 1000000))>> ELSE <<lo_c, hi_c>>

\* problem["bounds"], lines 664-675.
sobol_bounds(p) ==
    <<clip(Mul(p.a1, Q(97, 100)), Mul(p.a1, Q(103, 100)), Zero, One),
      clip(Mul(p.a2, Q(97, 100)), Mul(p.a2, Q(103, 100)), Zero, One),
      clip(Mul(p.a3, Q(9, 10)), Mul(p.a3, Q(11, 10)), Zero, One),
      clip(Sub(p.b0, Q(1, 10)), Add(p.b0, Q(1, 10)), Zero, One),
      clip(Mul(p.cross_ratio, Q(4, 5)), Mul(p.cross_ratio, Q(6, 5)), Zero, Q(1, 2)),
      clip(Mul(p.prep_post_ratio, Q(4, 5)), Mul(p.prep_post_ratio, Q(6, 5)), Zero,
           Q(1, 2)),
      clip(Mul(p.loss_unit, Q(4, 5)), Mul(p.loss_unit, Q(6, 5)), Zero, Num(50)),
      clip(Mul(p.T1, Q(9, 10)), Mul(p.T1, Q(11, 10)), One, Num(1000)),
      clip(Mul(p.T2, Q(9, 10)), Mul(p.T2, Q(11, 10)), One, Num(1000)),
      clip(Mul(p.T3, Q(9, 10)), Mul(p.T3, Q(11, 10)), One, Num(1000))>>

\* The least k with 2^k >= N: math.ceil(math.log2(N)) for N >= 1, line 685.
RECURSIVE ceil_log2(_, _)
ceil_log2(N, k) == IF 2 ^ k >= N THEN k ELSE ceil_log2(N, k + 1)

\* The power of two after the least sufficient one.
N_pow2_next(N) == 2 ^ (ceil_log2(N, 0) + 1)

\* N_pow2, line 685.
N_pow2(N) == 2 ^ ceil_log2(N, 0)

\* The design matrix X of sobol_sample, line 688: points of the box of
\* bounds, determined by the problem alone.  It is represented by one row,
\* the point of the box nearest to the values of p the bounds were built
\* around.
sobol_design(bounds, p) ==
    LET centre == <<p.a1, p.a2, p.a3, p.b0, p.cross_ratio, p.prep_post_ratio,
                    p.loss_unit, p.T1, p.T2, p.T3>>
    IN  <<Tabulate([j \in 1..Len(bounds) |->
                       QMin(QMax(centre[j], bounds[j][1]), bounds[j][2])],
                   Len(bounds))>>

\* The inline formulas without the grade multipliers.
sobol_row_ungraded(x, module_params) ==
    LET a_tot == Mul(Mul(x[1], x[2]), x[3])
        b_eff == Mul(Mul(x[4], One),
                     One)
        Sarr  == Sub(One, Mul(Sub(One, a_tot), Sub(One, b_eff)))
        Tarr  == Mul(Mul(Add(Add(x[8], x[9]), x[10]),
                         One),
                     One)
        Cbase == Mul(Tarr, Add(Add(One, x[5]), x[6]))
    IN  [Sarr |-> Sarr, Cbase |-> Cbase,
         E_tot |-> np_divide(Add(Cbase, Mul(Mul(x[7], Cbase), Sub(One, Sarr))), Sarr)]

\* Sarr, Cbase and E_tot for one design row x, lines 691-700.  The grade
\* multipliers are read from the module-level `params`, not from the
\* argument p.
sobol_row(x, module_params) ==
    LET a_tot == Mul(Mul(x[1], x[2]), x[3])
        b_eff == Mul(Mul(x[4], IF module_params.qual = "Standard" THEN One ELSE Q(4, 5)),
                     IF module_params.sched = "OnTime" THEN One ELSE Q(4, 5))
        Sarr  == Sub(One, Mul(Sub(One, a_tot), Sub(One, b_eff)))
        Tarr  == Mul(Mul(Add(Add(x[8], x[9]), x[10]),
                         IF module_params.qual = "Standard" THEN One ELSE Q(2, 3)),
                     IF module_params.sched = "OnTime" THEN One ELSE Q(2, 3))
        Cbase == Mul(Tarr, Add(Add(One, x[5]), x[6]))
    IN  [Sarr |-> Sarr, Cbase |-> Cbase,
         E_tot |-> np_divide(Add(Cbase, Mul(Mul(x[7], Cbase), Sub(One, Sarr))), Sarr)]

\* E_tot, line 700.
sobol_E_tot(x, module_params) == sobol_row(x, module_params).E_tot

\* run_sobol(p, N), lines 646-706, called while the module-level `params`
\* is module_params.  The table of S1 and ST is sobol.analyze applied to the
\* problem and E_tot, and is represented by them.  np.random.seed(0), line
\* 684, reseeds NumPy's global RandomState, from which the library then
\* draws; `np_random` is the state the call leaves behind.
run_sobol(p, N, module_params) ==
    LET bounds == sobol_bounds(p)
        X      == sobol_design(bounds, p)
    IN  [df |-> [bounds |-> bounds, N |-> N_pow2(N),
                 E_tot |-> Tabulate([r \in 1..Len(X) |-> sobol_E_tot(X[r], module_params)],
                                   Len(X))],
         info |-> N_pow2(N) # N,
         np_random |-> Advance(Seeded(0)),
         locals |-> [X |-> X,
                     rows |-> Tabulate([r \in 1..Len(X) |-> sobol_row(X[r], module_params)],
                                       Len(X))]]

----------------------------------------------------------------------------
(* Section 8: the deterministic baseline, computed inline at module level. *)

\* Section 8 with the preparation share left out of C.
Baseline_without_prep_post(p) ==
    LET qT      == IF p.qual = "Standard" THEN One ELSE Q(2, 3)
        qB      == IF p.qual = "Standard" THEN One ELSE Q(4, 5)
        sT      == IF p.sched = "OnTime" THEN One ELSE Q(2, 3)
        sB      == IF p.sched = "OnTime" THEN One ELSE Q(4, 5)
        a_total == Mul(Mul(p.a1, p.a2), p.a3)
        b_eff   == Mul(Mul(p.b0, qB), sB)
        S       == Sub(One, Mul(Sub(One, a_total), Sub(One, b_eff)))
        T       == Mul(Mul(Add(Add(p.T1, p.T2), p.T3), qT), sT)
        C       == Mul(T, Add(One, p.cross_ratio))
        C_loss  == Add(C, Mul(Mul(p.loss_unit, C), Sub(One, S)))
    IN  IF IsZero(S)
        THEN ZeroDivisionError
        ELSE [raised |-> "none", a_total |-> a_total, b_eff |-> b_eff, T |-> T,
              S |-> S, C |-> C, C_loss |-> C_loss, E |-> Div(C, S),
              E_total |-> Div(C_loss, S)]

\* Lines 713-723; E = C / S raises ZeroDivisionError when S == 0.
Baseline(p) ==
    LET qT      == IF p.qual = "Standard" THEN One ELSE Q(2, 3)
        qB      == IF p.qual = "Standard" THEN One ELSE Q(4, 5)
        sT      == IF p.sched = "OnTime" THEN One ELSE Q(2, 3)
        sB      == IF p.sched = "OnTime" THEN One ELSE Q(4, 5)
        a_total == Mul(Mul(p.a1, p.a2), p.a3)
        b_eff   == Mul(Mul(p.b0, qB), sB)
        S       == Sub(One, Mul(Sub(One, a_total), Sub(One, b_eff)))
        T       == Mul(Mul(Add(Add(p.T1, p.T2), p.T3), qT), sT)
        C       == Mul(T, Add(Add(One, p.cross_ratio), p.prep_post_ratio))
        C_loss  == Add(C, Mul(Mul(p.loss_unit, C), Sub(One, S)))
    IN  IF IsZero(S)
        THEN ZeroDivisionError
        ELSE [raised |-> "none", a_total |-> a_total, b_eff |-> b_eff, T |-> T,
              S |-> S, C |-> C, C_loss |-> C_loss, E |-> Div(C, S),
              E_total |-> Div(C_loss, S)]

----------------------------------------------------------------------------
(* Section 9: local elasticities.                                          *)

\* The derivatives of (C + L*(1-S))/S, a loss that does not scale with C.
symbolic_derivatives_fixed_loss(C_, S_, L_) ==
    [dE_dC |-> Div(One, S_),
     dE_dS |-> Sub(Neg(Div(Mul(C_, L_), S_)),
                   Div(Add(Mul(Mul(C_, L_), Sub(One, S_)), C_), Mul(S_, S_))),
     dE_dL |-> Div(Sub(One, S_), S_)]

\* symbolic_derivatives(C_, S_, L_), lines 728-735: sympy's derivatives of
\* (C + C L (1 - S)) / S, evaluated at the operating point (S_ # 0).
symbolic_derivatives(C_, S_, L_) ==
    [dE_dC |-> Div(Add(Mul(L_, Sub(One, S_)), One), S_),
     dE_dS |-> Sub(Neg(Div(Mul(C_, L_), S_)),
                   Div(Add(Mul(Mul(C_, L_), Sub(One, S_)), C_), Mul(S_, S_))),
     dE_dL |-> Div(Mul(C_, Sub(One, S_)), S_)]

\* rel_C taken relative to E instead of E_total.
elasticities_per_base_E(p, b) ==
    LET derivs == symbolic_derivatives(b.C, b.S, p.loss_unit)
    IN  IF IsZero(b.E_total)
        THEN ZeroDivisionError
        ELSE [raised |-> "none", derivs |-> derivs,
              rel_C |-> Div(Mul(derivs.dE_dC, b.C), b.E),
              rel_S |-> Div(Mul(derivs.dE_dS, b.S), b.E_total),
              rel_L |-> Div(Mul(derivs.dE_dL, p.loss_unit), b.E_total)]

\* rel_C, rel_S, rel_L, lines 736-739: float division by E_total raises
\* ZeroDivisionError when E_total == 0.
elasticities(p, b) ==
    LET derivs == symbolic_derivatives(b.C, b.S, p.loss_unit)
    IN  IF IsZero(b.E_total)
        THEN ZeroDivisionError
        ELSE [raised |-> "none", derivs |-> derivs,
              rel_C |-> Div(Mul(derivs.dE_dC, b.C), b.E_total),
              rel_S |-> Div(Mul(derivs.dE_dS, b.S), b.E_total),
              rel_L |-> Div(Mul(derivs.dE_dL, p.loss_unit), b.E_total)]

\* Sum of the elements of xs.
RECURSIVE np_sum(_)
np_sum(xs) == IF xs = <<>> THEN Zero ELSE Add(xs[1], np_sum(Tail(xs)))

\* ndarray.mean().
np_mean(xs) == Div(np_sum(xs), Num(Len(xs)))

\* The square of ndarray.std() (ddof = 0): the mean squared deviation from
\* the mean.
np_var(xs) ==
    LET mu == np_mean(xs)
    IN  np_mean(Tabulate([i \in 1..Len(xs) |-> Mul(Sub(xs[i], mu), Sub(xs[i], mu))],
                         Len(xs)))

\* ndarray.std() (ddof = 0), a square root, held as the samples it is the
\* standard deviation of.  It is nan when a sample is not finite and zero
\* exactly when all samples are equal; two of them are the same number
\* exactly when the variances are.
np_std(xs) == [std_of |-> xs]
std_is_nan(s) == \E i \in 1..Len(s.std_of) : s.std_of[i].d = 0
std_is_zero(s) == \A i \in 1..Len(s.std_of) : s.std_of[i] = s.std_of[1]
std_eq(s, t) ==
    \/ s = t
    \/ std_is_nan(s) /\ std_is_nan(t)
    \/ /\ ~std_is_nan(s)
       /\ ~std_is_nan(t)
       /\ np_var(s.std_of) = np_var(t.std_of)

\* sigma_E, sigma_C, sigma_S, sigma_L of line 640.  sigma_L is the deviation
\* of the elementwise product Cvals * L_samples.
mc_sigmas(mc) ==
    [E |-> np_std(mc.Evals), C |-> np_std(mc.Cvals), S |-> np_std(mc.Svals),
     L |-> np_std(Tabulate([i \in 1..Len(mc.Cvals) |-> Mul(mc.Cvals[i], mc.Ls[i])],
                           Len(mc.Cvals)))]

\* deriv * sigma_x / sigma_E, lines 740-742, held as its three factors.  The
\* operands are NumPy floats, so a zero sigma_E gives inf or nan and nothing
\* is raised.
standardised(deriv, sx, sE) ==
    IF std_is_nan(sx) \/ std_is_nan(sE) THEN NaN
    ELSE IF std_is_zero(sE)
         THEN (IF IsZero(deriv) \/ std_is_zero(sx) THEN NaN
               ELSE IF deriv.n < 0 THEN NegInf ELSE Inf)
    ELSE IF IsZero(deriv) \/ std_is_zero(sx) THEN Zero
    ELSE [coef |-> deriv, sigma_x |-> sx, sigma_E |-> sE]

\* std_C, std_S, std_L, lines 740-742.
std_sensitivities(derivs, sigma) ==
    [raised |-> "none",
     std_C |-> standardised(derivs.dE_dC, sigma.C, sigma.E),
     std_S |-> standardised(derivs.dE_dS, sigma.S, sigma.E),
     std_L |-> standardised(derivs.dE_dL, sigma.L, sigma.E)]

----------------------------------------------------------------------------
(* Section 10: the tornado loop.                                           *)

\* The loop's iteration order: the keys of sens_targets, lines 789-791.
sens_keys == <<"a1", "a2", "a3", "b0", "CR", "PP", "L">>

\* sens_targets[k], lines 789-791.
sens_targets(p, k) ==
    CASE k = "a1" -> p.a1 [] k = "a2" -> p.a2 [] k = "a3" -> p.a3
      [] k = "b0" -> p.b0 [] k = "CR" -> p.cross_ratio
      [] k = "PP" -> p.prep_post_ratio [] k = "L" -> p.loss_unit

\* name_map[k], lines 792-794.
name_map(k) ==
    CASE k = "a1" -> "a1v" [] k = "a2" -> "a2v" [] k = "a3" -> "a3v"
      [] k = "b0" -> "bv" [] k = "CR" -> "cross_ratio_v"
      [] k = "PP" -> "prep_post_ratio_v" [] k = "L" -> "loss_unit_v"

\* lo, line 797.
tornado_lo(k, base) == QMax(Mul(base, Q(4, 5)), Zero)

\* A variant of tornado_hi without the cap at 1.
tornado_hi_uncapped(k, base) == Mul(base, Q(6, 5))

\* hi, line 798.
tornado_hi(k, base) ==
    IF k \in {"a1", "a2", "a3", "b0"}
    THEN QMin(Mul(base, Q(6, 5)), One)
    ELSE Mul(base, Q(6, 5))

\* The pair (lo, hi) of every iteration of the loop, lines 797-798.
tornado_bounds(p) ==
    Tabulate([i \in 1..Len(sens_keys) |->
                 [lo |-> tornado_lo(sens_keys[i], sens_targets(p, sens_keys[i])),
                  hi |-> tornado_hi(sens_keys[i], sens_targets(p, sens_keys[i]))]],
             Len(sens_keys))

\* The kw dict of e_tot before kw.update(ov), lines 800-805.
baseline_kw(p) ==
    [a1v |-> p.a1, a2v |-> p.a2, a3v |-> p.a3, bv |-> p.b0,
     cross_ratio_v |-> p.cross_ratio, prep_post_ratio_v |-> p.prep_post_ratio,
     loss_unit_v |-> p.loss_unit, qualv |-> p.qual, schedv |-> p.sched,
     t1v |-> p.T1, t2v |-> p.T2, t3v |-> p.T3]

\* e_tot(**{name: value}), lines 799-806: compute_metrics(**kw)[4], or the
\* exception compute_metrics raises.
e_tot(p, name, value) == compute_metrics([baseline_kw(p) EXCEPT ![name] = value])

\* A variant of tornado_delta that reports the absolute change.
tornado_delta_absolute(p, k, E_total) ==
    LET base == sens_targets(p, k)
        r_lo == e_tot(p, name_map(k), tornado_lo(k, base))
        r_hi == e_tot(p, name_map(k), tornado_hi(k, base))
    IN  IF r_lo.raised # "none" THEN r_lo
        ELSE IF r_hi.raised # "none" THEN r_hi
        ELSE IF IsZero(E_total) THEN ZeroDivisionError
        ELSE [raised |-> "none",
              delta |-> QMax(QAbs(Sub(r_lo.E_total, E_total)),
                             QAbs(Sub(r_hi.E_total, E_total)))]

\* delta for one key, lines 807-808.  Python evaluates the max of the two
\* absolute differences, then divides by the module-level E_total.
tornado_delta(p, k, E_total) ==
    LET base == sens_targets(p, k)
        r_lo == e_tot(p, name_map(k), tornado_lo(k, base))
        r_hi == e_tot(p, name_map(k), tornado_hi(k, base))
    IN  IF r_lo.raised # "none" THEN r_lo
        ELSE IF r_hi.raised # "none" THEN r_hi
        ELSE IF IsZero(E_total) THEN ZeroDivisionError
        ELSE [raised |-> "none",
              delta |-> Div(QMax(QAbs(Sub(r_lo.E_total, E_total)),
                                 QAbs(Sub(r_hi.E_total, E_total))), E_total)]

\* The list `tornado` after the loop, lines 795-809, or the first exception.
tornado_rows(d) ==
    IF \E i \in 1..Len(d) : d[i].raised # "none"
    THEN d[CHOOSE i \in 1..Len(d) :
               /\ d[i].raised # "none"
               /\ \A j \in 1..(i - 1) : d[j].raised = "none"]
    ELSE [raised |-> "none",
          rows |-> Tabulate([i \in 1..Len(d) |->
                                [Parameter |-> sens_keys[i], RelChange |-> d[i].delta]],
                            Len(d))]

tornado_loop(p, E_total) ==
    tornado_rows(Tabulate([i \in 1..Len(sens_keys) |->
                              tornado_delta(p, sens_keys[i], E_total)],
                          Len(sens_keys)))

\* Orders of the row indices `idx` by descending rank number rk, ties in any
\* order.
RECURSIVE Arrange(_, _)
Arrange(idx, rk) ==
    IF idx = {} THEN {<<>>}
    ELSE UNION {{<<i>> \o s : s \in Arrange(idx \ {i}, rk)} :
                i \in {i \in idx : \A j \in idx : rk[j] <= rk[i]}}

\* DataFrame.sort_values("RelChange", ascending=False), lines 810-811, with
\* the default kind="quicksort": descending by RelChange; pandas documents
\* only "mergesort" and "stable" as stable, so rows of equal RelChange may
\* come out in any order.
sort_values(rows) ==
    LET rk == Tabulate([i \in 1..Len(rows) |->
                           Cardinality({j \in 1..Len(rows) :
                                           Less(rows[j].RelChange, rows[i].RelChange)})],
                       Len(rows))
    IN  {[i \in 1..Len(rows) |-> rows[ord[i]]] : ord \in Arrange(1..Len(rows), rk)}

----------------------------------------------------------------------------
(* Direct evaluations: the model and the tornado section applied to any    *)
(* Parameter Set the sidebar allows, with any one keyword overridden.      *)

NoCall == [fn |-> "none"]
NoPage == [run |-> 0]

\* Keyword values a what-if evaluation may pass, in and out of the declared
\* domains.
Overrides(name) ==
    CASE name \in {"a1v", "a2v", "a3v", "bv"} ->
             {Q(-1, 2), Zero, Q(1, 2), Q(3, 4), One, Q(3, 2)}
      [] name \in {"cross_ratio_v", "prep_post_ratio_v"} ->
             {Q(-1, 10), Zero, Q(3, 10), Q(1, 2)}
      [] name = "loss_unit_v" -> {Num(-1), Zero, Q(1, 2), Num(2)}
      [] name \in {"t1v", "t2v", "t3v"} -> {Num(-9), Zero, Num(9), Num(27)}
      [] name = "qualv" -> Grades
      [] name = "schedv" -> Schedules

Keywords == {"a1v", "a2v", "a3v", "bv", "cross_ratio_v", "prep_post_ratio_v",
             "loss_unit_v", "qualv", "schedv", "t1v", "t2v", "t3v"}

EvalInit ==
    /\ params \in {SidebarParams(a1, a2, a3, b0, cr, pp, l, t, q, s, 1, "E_total") :
                      a1 \in StepSuccess, a2 \in StepSuccess, a3 \in {One},
                      b0 \in CheckerSkill, cr \in CrossRatios, pp \in {Q(2, 5)},
                      l \in LossUnits, t \in TaskHours, q \in Grades, s \in Schedules}
    /\ mc_cache = {}
    /\ sobol_cache = {}
    /\ now = 0
    /\ np_random = 0
    /\ page = NoPage
    /\ call = NoCall
    /\ held = NoCall

\* compute_metrics called with the baseline keywords and one override, as
\* e_tot (lines 799-806) and the scenario loop (lines 768-774) call it.
Evaluate(name, value) ==
    /\ call = NoCall
    /\ call' = [fn |-> "compute_metrics", name |-> name,
                base_kw |-> baseline_kw(params),
                kw |-> [baseline_kw(params) EXCEPT ![name] = value],
                base |-> compute_metrics(baseline_kw(params)),
                res |-> e_tot(params, name, value)]
    /\ UNCHANGED <<params, mc_cache, sobol_cache, now, np_random, page, held>>

\* The tornado section, lines 789-811, with E_total of Section 8.
TornadoChart ==
    /\ call = NoCall
    /\ \E b \in {Baseline(params)} :
       \E t \in {IF b.raised # "none" THEN b ELSE tornado_loop(params, b.E_total)} :
       \E df \in (IF t.raised # "none" THEN {<<>>} ELSE sort_values(t.rows)) :
           call' = [fn |-> "tornado", baseline |-> b, tornado |-> t,
                    perturbed |-> tornado_bounds(params), df_tornado |-> df]
    /\ UNCHANGED <<params, mc_cache, sobol_cache, now, np_random, page, held>>

\* The loss-unit slider is moved and the tornado loop runs again.
MoveLossSlider(value) ==
    /\ call = NoCall
    /\ value # params.loss_unit
    /\ \E b0 \in {Baseline(params)} :
       \E p1 \in {[params EXCEPT !.loss_unit = value]} :
       \E b1 \in {Baseline(p1)} :
           /\ params' = p1
           /\ call' = [fn |-> "loss_unit", from |-> params.loss_unit, to |-> value,
                       before |-> IF b0.raised # "none" THEN b0
                                  ELSE tornado_loop(params, b0.E_total),
                       after |-> IF b1.raised # "none" THEN b1
                                 ELSE tornado_loop(p1, b1.E_total)]
    /\ UNCHANGED <<mc_cache, sobol_cache, now, np_random, page, held>>

\* The evaluation returns to its caller; evaluations are synchronous, one
\* at a time.
Return ==
    /\ call # NoCall
    /\ call' = NoCall
    /\ UNCHANGED <<params, mc_cache, sobol_cache, now, np_random, page, held>>

EvalNext ==
    \/ \E name \in Keywords : \E value \in Overrides(name) : Evaluate(name, value)
    \/ TornadoChart
    \/ \E value \in LossUnits : MoveLossSlider(value)
    \/ Return

SpecEval == EvalInit /\ [][EvalNext]_vars

----------------------------------------------------------------------------
(* The application: Streamlit runs the whole script, lines 585-885, once   *)
(* when the page opens and again after every widget change.                *)

\* The sidebar as the session opens it: get_state (lines 392-396) gives a
\* widget the value st.session_state holds for it.
Opening ==
    SidebarParams(Q(1, 2), Q(1, 2), Q(1, 2), Q(1, 2), Q(1, 2), Q(1, 4), Q(5, 2),
                  <<9, 9, 9>>, "Low", "Late", 1000, "E_total")

\* The values the widgets are moved to.
WidgetValues(k) ==
    CASE k \in {"a1", "a2", "a3"} -> {Q(1, 2), One}
      [] k = "b0" -> {Q(1, 2), One}
      [] k = "cross_ratio" -> {Zero, Q(1, 2)}
      [] k = "prep_post_ratio" -> {Zero, Q(1, 4)}
      [] k = "loss_unit" -> {Zero, Q(5, 2)}
      [] k \in {"T1", "T2", "T3"} -> {Zero, Num(9)}
      [] k = "qual" -> Grades
      [] k = "sched" -> Schedules
      [] k = "sample_n" -> {1000, 11000}
      [] k = "mc_var" -> {"E_total", "Success S"}

Widgets == {"a1", "a2", "a3", "b0", "cross_ratio", "prep_post_ratio", "loss_unit",
            "T1", "T2", "T3", "qual", "sched", "sample_n", "mc_var"}

MaxRuns == 3
MaxTicks == 2
TickSeconds == 450

\* The scenario loop, lines 762-775.
scenarios == <<<<"Std/On", "Standard", "OnTime">>, <<"Std/Late", "Standard", "Late">>,
               <<"Low/On", "Low", "OnTime">>, <<"Low/Late", "Low", "Late">>>>

scenario_bars(p) ==
    Tabulate([i \in 1..Len(scenarios) |->
                 [Scenario |-> scenarios[i][1],
                  res |-> compute_metrics([baseline_kw(p) EXCEPT
                                              !.qualv = scenarios[i][2],
                                              !.schedv = scenarios[i][3]])]],
             Len(scenarios))

\* One run of the script with the sidebar at p, lines 585-811.
RunScript(p) ==
    \E N \in {p.sample_n} :
    \E mc_hit \in {cache_hit(mc_cache, cache_key(p, N), now)} :
    \E mc \in {IF mc_hit THEN cache_get(mc_cache, cache_key(p, N), now)
                         ELSE run_mc(p, N)} :
    \E sb_hit \in {cache_hit(sobol_cache, cache_key(p, SobolDefaultN), now)} :
    \E sb \in {IF sb_hit THEN cache_get(sobol_cache, cache_key(p, SobolDefaultN), now)
                         ELSE run_sobol(p, SobolDefaultN, p)} :
    \E locals \in {IF mc_hit THEN <<>> ELSE mc_locals(p, N)} :
    \E sigma \in {mc_sigmas(mc)} :
    \E b \in {Baseline(p)} :
    \E el \in {IF b.raised # "none" THEN b ELSE elasticities(p, b)} :
    \E std \in {IF el.raised # "none" THEN el
                ELSE std_sensitivities(el.derivs, sigma)} :
    \E bars \in {IF el.raised # "none" THEN <<>> ELSE scenario_bars(p)} :
    \E t \in {IF el.raised # "none" THEN el ELSE tornado_loop(p, b.E_total)} :
    \E df \in (IF t.raised # "none" THEN {<<>>} ELSE sort_values(t.rows)) :
        /\ params' = p
        /\ mc_cache' = IF mc_hit THEN mc_cache
                       ELSE cache_put(mc_cache, cache_key(p, N), mc, now)
        /\ sobol_cache' = IF sb_hit THEN sobol_cache
                          ELSE cache_put(sobol_cache, cache_key(p, SobolDefaultN),
                                         [df |-> sb.df, info |-> sb.info], now)
        /\ np_random' = IF sb_hit THEN np_random ELSE sb.np_random
        /\ page' = [run |-> page.run + 1, raised |-> t.raised,
                    mc |-> mc, mc_hit |-> mc_hit, mc_locals |-> locals,
                    df_sobol |-> sb.df, info |-> sb.info, sobol_hit |-> sb_hit,
                    sobol_locals |-> IF sb_hit THEN <<>> ELSE sb.locals,
                    sigma |-> sigma, baseline |-> b, elasticities |-> el,
                    std |-> std, bars |-> bars,
                    tornado |-> t, df_tornado |-> df]

Init ==
    /\ params = Opening
    /\ mc_cache = {}
    /\ sobol_cache = {}
    /\ now = 0
    /\ np_random = 0
    /\ page = NoPage
    /\ call = NoCall
    /\ held = NoCall

\* The page is opened, or reloaded with the sidebar unchanged.
Rerun ==
    /\ page.run < MaxRuns
    /\ RunScript(params)
    /\ UNCHANGED <<now, call, held>>

\* A widget is moved and Streamlit reruns the script.
WidgetChange(k, v) ==
    /\ page.run > 0
    /\ page.run < MaxRuns
    /\ params[k] # v
    /\ RunScript([params EXCEPT ![k] = v])
    /\ UNCHANGED <<now, call, held>>

\* Time passes.
Tick ==
    /\ page.run > 0
    /\ now < MaxTicks * TickSeconds
    /\ now' = now + TickSeconds
    /\ UNCHANGED <<params, mc_cache, sobol_cache, np_random, page, call, held>>

Next ==
    \/ Rerun
    \/ \E k \in Widgets : \E v \in WidgetValues(k) : WidgetChange(k, v)
    \/ Tick

Spec == Init /\ [][Next]_vars

----------------------------------------------------------------------------
(* The analysis operations invoked one at a time by a caller that keeps an *)
(* earlier invocation's arguments and result, while the module-level       *)
(* `params` is rebound and time passes between the invocations.            *)

\* Parameter Sets passed as the argument p.
ArgParams == {Opening, [Opening EXCEPT !.b0 = One, !.sample_n = 11000]}

\* Sample counts passed as the argument N.
ArgN == {2}

\* Operating points passed to symbolic_derivatives.
ArgPoints == {<<Num(9), Q(1, 2), Q(5, 2)>>, <<Num(9), One, Zero>>,
              <<Num(85), Q(9444, 10000), Q(1, 2)>>}

MaxBetween == 2

CallsInit ==
    /\ params = Opening
    /\ mc_cache = {}
    /\ sobol_cache = {}
    /\ now = 0
    /\ np_random = 0
    /\ page = NoPage
    /\ call = NoCall
    /\ held = NoCall

CanCall == call = NoCall /\ (IF held = NoCall THEN TRUE ELSE held.between < MaxBetween)

\* The module-level name `params` (line 585) is rebound to another sidebar.
SetParams(k, v) ==
    /\ call = NoCall
    /\ params[k] # v
    /\ params' = [params EXCEPT ![k] = v]
    /\ UNCHANGED <<mc_cache, sobol_cache, now, np_random, page, call, held>>

CallComputeMetrics(p) ==
    /\ CanCall
    /\ call' = [fn |-> "compute_metrics", args |-> <<baseline_kw(p)>>,
                res |-> compute_metrics(baseline_kw(p)), hit |-> FALSE]
    /\ UNCHANGED <<params, mc_cache, sobol_cache, now, np_random, page, held>>

CallSymbolicDerivatives(x) ==
    /\ CanCall
    /\ call' = [fn |-> "symbolic_derivatives", args |-> x,
                res |-> symbolic_derivatives(x[1], x[2], x[3]), hit |-> FALSE]
    /\ UNCHANGED <<params, mc_cache, sobol_cache, now, np_random, page, held>>

\* run_mc(p, N) through its st.cache_data wrapper, line 590.
CallRunMC(p, N) ==
    /\ CanCall
    /\ \E hit \in {cache_hit(mc_cache, cache_key(p, N), now)} :
       \E mc \in {IF hit THEN cache_get(mc_cache, cache_key(p, N), now)
                        ELSE run_mc(p, N)} :
           /\ mc_cache' = IF hit THEN mc_cache
                          ELSE cache_put(mc_cache, cache_key(p, N), mc, now)
           /\ call' = [fn |-> "run_mc", args |-> <<p, N>>, res |-> mc, hit |-> hit]
    /\ UNCHANGED <<params, sobol_cache, now, np_random, page, held>>

\* run_sobol(p, N) through its st.cache_data wrapper, line 645.
CallRunSobol(p, N) ==
    /\ CanCall
    /\ \E hit \in {cache_hit(sobol_cache, cache_key(p, N), now)} :
       \E sb \in {IF hit THEN cache_get(sobol_cache, cache_key(p, N), now)
                        ELSE run_sobol(p, N, params)} :
           /\ sobol_cache' = IF hit THEN sobol_cache
                             ELSE cache_put(sobol_cache, cache_key(p, N),
                                            [df |-> sb.df, info |-> sb.info], now)
           /\ np_random' = IF hit THEN np_random ELSE sb.np_random
           /\ call' = [fn |-> "run_sobol", args |-> <<p, N>>,
                       res |-> [df |-> sb.df, info |-> sb.info], hit |-> hit]
    /\ UNCHANGED <<params, mc_cache, now, page, held>>

\* The caller keeps the invocation's arguments and result.
Keep ==
    /\ call # NoCall
    /\ held' = [fn |-> call.fn, args |-> call.args, res |-> call.res,
                hit |-> call.hit, between |-> 0]
    /\ call' = NoCall
    /\ UNCHANGED <<params, mc_cache, sobol_cache, now, np_random, page>>

\* The caller drops the result; one more invocation lies behind the kept one.
Drop ==
    /\ call # NoCall
    /\ call' = NoCall
    /\ held' = IF held = NoCall THEN held
               ELSE [held EXCEPT !.between = held.between + 1]
    /\ UNCHANGED <<params, mc_cache, sobol_cache, now, np_random, page>>

\* The cached entries outlive their ttl.
Expire ==
    /\ call = NoCall
    /\ now < TTL
    /\ now' = now + TTL
    /\ UNCHANGED <<params, mc_cache, sobol_cache, np_random, page, call, held>>

CallsNext ==
    \/ \E v \in Grades : SetParams("qual", v)
    \/ \E p \in ArgParams : CallComputeMetrics(p)
    \/ \E x \in ArgPoints : CallSymbolicDerivatives(x)
    \/ \E p \in ArgParams : \E N \in ArgN : CallRunMC(p, N)
    \/ \E p \in ArgParams : CallRunSobol(p, SobolDefaultN)
    \/ Keep
    \/ Drop
    \/ Expire

SpecCalls == CallsInit /\ [][CallsNext]_vars

----------------------------------------------------------------------------
(* The deterministic sections of the script at the shipped sidebar defaults *)
(* and at the neighbouring slider values: Section 8 and the quality x      *)
(* schedule chart.                                                         *)

\* The widget defaults, lines 510-575.
DefaultParams ==
    SidebarParams(Q(95, 100), Q(95, 100), Q(80, 100), Q(80, 100), Q(30, 100),
                  Q(40, 100), Zero, <<10, 10, 30>>, "Standard", "OnTime",
                  100000, "E_total")

\* Sidebars the widgets can be set to, the defaults among them.
DeterministicParams ==
    {SidebarParams(a1, a2, a3, b0, cr, Q(40, 100), l, <<10, 10, 30>>, q, s,
                   100000, "E_total") :
        a1 \in {Q(95, 100), One}, a2 \in {Q(95, 100), One}, a3 \in {Q(80, 100), One},
        b0 \in {Q(80, 100), One}, cr \in {Zero, Q(30, 100)}, l \in {Zero, Q(1, 2)},
        q \in Grades, s \in Schedules}

DeterministicInit ==
    /\ params \in DeterministicParams
    /\ mc_cache = {}
    /\ sobol_cache = {}
    /\ now = 0
    /\ np_random = 0
    /\ page = NoPage
    /\ call = NoCall
    /\ held = NoCall

\* Section 8, lines 713-723, next to compute_metrics on the same sidebar.
DeterministicBaseline ==
    /\ call = NoCall
    /\ call' = [fn |-> "baseline", res |-> Baseline(params),
                metrics |-> compute_metrics(baseline_kw(params))]
    /\ UNCHANGED <<params, mc_cache, sobol_cache, now, np_random, page, held>>

\* The quality x schedule chart, lines 762-775.
QualityScheduleBars ==
    /\ call = NoCall
    /\ call' = [fn |-> "scenarios", bars |-> scenario_bars(params)]
    /\ UNCHANGED <<params, mc_cache, sobol_cache, now, np_random, page, held>>

DeterministicNext ==
    \/ DeterministicBaseline
    \/ QualityScheduleBars
    \/ Return

SpecDeterministic == DeterministicInit /\ [][DeterministicNext]_vars

----------------------------------------------------------------------------
(* run_sobol called with every requested sample count up to MaxDesignN and *)
(* with its default.                                                       *)

MaxDesignN == 9

DesignSizes == (1..MaxDesignN) \cup {SobolDefaultN}

DesignNext ==
    \/ \E N \in DesignSizes : CallRunSobol(Opening, N)
    \/ Return

SpecDesign == CallsInit /\ [][DesignNext]_vars

----------------------------------------------------------------------------
(* gerrit_ab_estimator_ratio_bazel.py: fetch_changes, lines 48-58.  The     *)
(* frame of the running call is held in `call`: its locals out, more and s, *)
(* its position pc, the queries sent so far and the pages received so far.  *)

\* Projects of HOSTS, lines 17-27.
Projects == {"bazel", "plugins/owners"}

\* n=100 of the query and the step of s, lines 52 and 57.
PageStep == 100

\* The most queries one call sends, and the most changes on one page.
MaxRequests == 3
MaxPageLen == 2

\* ChangeInfo entries as the server sends them: without the flag, with a
\* false flag and with a true flag.
Changes == {[_number |-> 1], [_number |-> 2, _more_changes |-> FALSE],
            [_number |-> 3, _more_changes |-> TRUE]}

RECURSIVE SeqsOfLen(_, _)
SeqsOfLen(S, k) ==
    IF k = 0 THEN {<<>>} ELSE {Append(q, c) : q \in SeqsOfLen(S, k - 1), c \in S}

\* The lists rest.get can return for one query, line 53.
Responses == UNION {SeqsOfLen(Changes, k) : k \in 0..MaxPageLen}

\* dict.get(key, default).
dict_get(c, key, default) == IF key \in DOMAIN c THEN c[key] ELSE default

\* The flag read from the first element of the page.
first_more(chunk) == dict_get(chunk[1], "_more_changes", FALSE)

\* chunk[-1].get("_more_changes", False), line 56.
last_more(chunk) == dict_get(chunk[Len(chunk)], "_more_changes", FALSE)

InFetch == call # NoCall /\ call.fn = "fetch_changes"

\* fetch_changes(rest, project) is entered: lines 49-50.
CallFetchChanges(project) ==
    /\ call = NoCall
    /\ call' = [fn |-> "fetch_changes", project |-> project, pc |-> "while",
                out |-> <<>>, more |-> TRUE, s |-> 0,
                requests |-> <<>>, pages |-> <<>>, res |-> <<>>]
    /\ UNCHANGED <<params, mc_cache, sobol_cache, now, np_random, page, held>>

\* The loop test of line 51: either the query of line 52 is sent with
\* rest.get (line 53), or the loop ends and line 58 returns out.
WhileTest ==
    /\ InFetch
    /\ call.pc = "while"
    /\ IF call.more
       THEN /\ Len(call.requests) < MaxRequests
            /\ call' = [call EXCEPT
                           !.pc = "get",
                           !.requests = Append(@, [project |-> call.project,
                                                   n |-> PageStep, S |-> call.s])]
       ELSE call' = [call EXCEPT !.pc = "returned", !.res = call.out]
    /\ UNCHANGED <<params, mc_cache, sobol_cache, now, np_random, page, held>>

\* rest.get returns chunk, lines 53-57: an empty page breaks out of the loop
\* and line 58 returns; any other page is appended, its last element sets
\* `more`, and s advances.
Respond(chunk) ==
    /\ InFetch
    /\ call.pc = "get"
    /\ call' = IF chunk = <<>>
               THEN [call EXCEPT !.pc = "returned", !.pages = Append(@, chunk),
                                 !.res = call.out]
               ELSE [call EXCEPT !.pc = "while", !.pages = Append(@, chunk),
                                 !.out = @ \o chunk,
                                 !.more = last_more(chunk),
                                 !.s = @ + PageStep]
    /\ UNCHANGED <<params, mc_cache, sobol_cache, now, np_random, page, held>>

FetchNext ==
    \/ \E project \in Projects : CallFetchChanges(project)
    \/ WhileTest
    \/ \E chunk \in Responses : Respond(chunk)

SpecFetch == CallsInit /\ [][FetchNext]_vars

\* The interpreter keeps running the loop, and rest.get returns for every
\* query it sends.
FairSpecFetch ==
    /\ SpecFetch
    /\ WF_vars(WhileTest)
    /\ WF_vars(\E chunk \in Responses : Respond(chunk))

----------------------------------------------------------------------------
(* The declared domains and closed forms of the specification, in which    *)
(* the properties below are stated.                                        *)

ProbKeywords == {"a1v", "a2v", "a3v", "bv"}

\* Section 3 of the specification: a1, a2, a3 in (0,1], b0 in [0,1], the
\* ratios in [0, 0.5], loss_unit and the task hours non-negative.
InDomain(kw) ==
    /\ \A x \in {kw.a1v, kw.a2v, kw.a3v} : Less(Zero, x) /\ Leq(x, One)
    /\ Leq(Zero, kw.bv) /\ Leq(kw.bv, One)
    /\ \A x \in {kw.cross_ratio_v, kw.prep_post_ratio_v} :
           Leq(Zero, x) /\ Leq(x, Q(1, 2))
    /\ \A x \in {kw.loss_unit_v, kw.t1v, kw.t2v, kw.t3v} : Leq(Zero, x)

\* The (time, checker) multiplier pair of a grade.
TimeFactor == [Standard |-> One, Low |-> Q(2, 3), OnTime |-> One, Late |-> Q(2, 3)]
CheckerFactor == [Standard |-> One, Low |-> Q(4, 5), OnTime |-> One, Late |-> Q(4, 5)]

a_total_of(kw) == Mul(kw.a1v, Mul(kw.a2v, kw.a3v))
b_effective_of(kw) == Mul(kw.bv, Mul(CheckerFactor[kw.qualv], CheckerFactor[kw.schedv]))
S_of(kw) == Sub(One, Mul(Sub(One, a_total_of(kw)), Sub(One, b_effective_of(kw))))
C_of(kw) ==
    Mul(Mul(Add(kw.t1v, Add(kw.t2v, kw.t3v)),
            Mul(TimeFactor[kw.qualv], TimeFactor[kw.schedv])),
        Add(One, Add(kw.cross_ratio_v, kw.prep_post_ratio_v)))
\* E_total = C (1 + loss_unit (1 - S)) / S, for S # 0.
E_total_of(kw) ==
    Div(Mul(C_of(kw), Add(One, Mul(kw.loss_unit_v, Sub(One, S_of(kw))))), S_of(kw))

----------------------------------------------------------------------------
(* Properties of the deterministic model and the tornado analysis,         *)
(* checked under SpecEval.                                                 *)

\* C1: for every parameter set in the declared domain compute_metrics
\* returns (S, C, C_loss, E, E_total) with S = 1 - (1 - a1 a2 a3)(1 - b0
\* qual_B sched_B), C = (t1 + t2 + t3) qual_T sched_T (1 + CR + PP),
\* C_loss = C + loss_unit C (1 - S), E = C / S and E_total = C_loss / S,
\* the multiplier pair being (1, 1) for Standard and OnTime and (2/3, 0.8)
\* for Low and Late.
C1_ComputeMetricsFormulas ==
    (call.fn = "compute_metrics" /\ InDomain(call.kw)) =>
        /\ call.res.raised = "none"
        /\ call.res.S = S_of(call.kw)
        /\ call.res.C = C_of(call.kw)
        /\ Sub(call.res.C_loss, call.res.C)
               = Mul(call.kw.loss_unit_v, Mul(call.res.C, Sub(One, call.res.S)))
        /\ Mul(call.res.E, call.res.S) = call.res.C
        /\ Mul(call.res.E_total, call.res.S) = call.res.C_loss

\* C1 witness: an in-domain evaluation under Low and Late with a positive
\* loss unit, a success rate below 1 and a positive cost.
C1_Witness ==
    /\ call.fn = "compute_metrics" /\ InDomain(call.kw)
    /\ call.kw.qualv = "Low" /\ call.kw.schedv = "Late"
    /\ call.res.raised = "none"
    /\ Less(Zero, call.kw.loss_unit_v)
    /\ Less(call.res.S, One) /\ Less(Zero, call.res.C)
    /\ Less(call.res.E, call.res.E_total)

\* An evaluation that raises one of a1, a2, a3, b0 inside the declared
\* domain, all other parameters held fixed.
RaisesSuccessDriver ==
    /\ call.fn = "compute_metrics"
    /\ call.name \in ProbKeywords
    /\ InDomain(call.base_kw) /\ InDomain(call.kw)
    /\ Less(call.base_kw[call.name], call.kw[call.name])

\* Whether the path the raised parameter does not belong to already
\* succeeds with certainty.
OtherPathCertain ==
    IF call.name = "bv" THEN a_total_of(call.kw) = One
    ELSE b_effective_of(call.kw) = One

\* C2 as stated: raising any one of a1, a2, a3, b0 strictly increases S and
\* never increases E_total.
C2_StrictMonotonicity ==
    RaisesSuccessDriver =>
        /\ Less(call.base.S, call.res.S)
        /\ Leq(call.res.E_total, call.base.E_total)

\* C2 amended: raising any one of a1, a2, a3, b0 never decreases S and
\* never increases E_total; S increases strictly unless the other path
\* already succeeds with certainty (b0 qual_B sched_B = 1 when an a_i is
\* raised, a1 a2 a3 = 1 when b0 is raised), in which case S stays 1.
C2_Monotonicity ==
    RaisesSuccessDriver =>
        /\ call.base.raised = "none" /\ call.res.raised = "none"
        /\ Leq(call.res.E_total, call.base.E_total)
        /\ IF OtherPathCertain
           THEN call.base.S = One /\ call.res.S = One
           ELSE Less(call.base.S, call.res.S)

\* C2 witness: a raise that strictly increases S and strictly lowers E_total.
C2_Witness ==
    /\ RaisesSuccessDriver /\ ~OtherPathCertain
    /\ Less(call.base.S, call.res.S)
    /\ Less(call.res.E_total, call.base.E_total)

\* The rank order of rows i and j of a tornado list: -1, 0 or 1.
RankOrder(rows, i, j) ==
    IF Less(rows[i].RelChange, rows[j].RelChange) THEN -1
    ELSE IF Less(rows[j].RelChange, rows[i].RelChange) THEN 1 ELSE 0

\* The loss unit was moved from one positive value to another and both
\* tornado loops completed.
LossUnitScaled ==
    /\ call.fn = "loss_unit"
    /\ Less(Zero, call.from) /\ Less(Zero, call.to)
    /\ call.before.raised = "none" /\ call.after.raised = "none"

\* C3 as stated: scaling loss_unit by a positive constant leaves the rank
\* order of the impacts of a1, a2, a3, b0, CR, PP unchanged.
C3_RankOrderInvariant ==
    LossUnitScaled =>
        \A i, j \in 1..6 :
            RankOrder(call.before.rows, i, j) = RankOrder(call.after.rows, i, j)

\* C3 amended: scaling loss_unit by a positive constant leaves the impacts
\* of CR and PP unchanged and leaves the rank order among a1, a2, a3, b0
\* unchanged; the impacts of a1, a2, a3, b0 themselves depend on loss_unit,
\* so their rank against CR and PP may change.
C3_RankOrderWithinClasses ==
    LossUnitScaled =>
        /\ \A i \in 5..6 :
               call.before.rows[i].RelChange = call.after.rows[i].RelChange
        /\ \A i, j \in 1..4 :
               RankOrder(call.before.rows, i, j) = RankOrder(call.after.rows, i, j)

\* C3 witness: a scaling that changes the impact of a1 while CR and PP have
\* positive impacts.
C3_Witness ==
    /\ LossUnitScaled
    /\ call.before.rows[1].RelChange # call.after.rows[1].RelChange
    /\ Less(Zero, call.before.rows[5].RelChange)
    /\ Less(Zero, call.before.rows[6].RelChange)
    /\ Less(call.before.rows[4].RelChange, call.before.rows[1].RelChange)

\* C4: whenever S == 0 or an input is outside its declared domain the
\* evaluation ends in a DomainError, and the tornado evaluations end in a
\* result or a DomainError, never in another exception.
C4_TypedDomainError ==
    /\ (call.fn = "compute_metrics"
          /\ (~InDomain(call.kw)
                \/ (a_total_of(call.kw) = Zero /\ b_effective_of(call.kw) = Zero)))
       => call.res.raised = "DomainError"
    /\ call.fn = "tornado" => call.tornado.raised \in {"none", "DomainError"}

\* C5: for every parameter set the widgets allow the tornado computation
\* does not raise, and a parameter whose baseline value is 0 gets impact 0.
C5_TornadoZeroEdge ==
    call.fn = "tornado" =>
        /\ call.tornado.raised = "none"
        /\ \A i \in 1..Len(sens_keys) :
               sens_targets(params, sens_keys[i]) = Zero
                   => call.tornado.rows[i].RelChange = Zero

\* The keywords of a parameter set with tornado key k replaced by v.
Perturbed(p, k, v) == [baseline_kw(p) EXCEPT ![name_map(k)] = v]

\* C6: lo = max(0.8 v, 0); hi = 1.2 v, capped at 1 for a1, a2, a3, b0;
\* every perturbed probability stays in [0,1] and every perturbed ratio or
\* cost stays >= 0; impact(k) = max(|E_lo - E_baseline|, |E_hi -
\* E_baseline|) / E_baseline with only k replaced.
C6_TornadoImpact ==
    (call.fn = "tornado" /\ call.tornado.raised = "none") =>
        \A i \in 1..Len(sens_keys) :
            LET k    == sens_keys[i]
                v    == sens_targets(params, k)
                lo   == QMax(Mul(Q(4, 5), v), Zero)
                hi   == IF i <= 4 THEN QMin(Mul(Q(6, 5), v), One) ELSE Mul(Q(6, 5), v)
                E_b  == E_total_of(baseline_kw(params))
                E_lo == E_total_of(Perturbed(params, k, lo))
                E_hi == E_total_of(Perturbed(params, k, hi))
            IN  /\ call.perturbed[i] = [lo |-> lo, hi |-> hi]
                /\ Leq(Zero, call.perturbed[i].lo)
                /\ i <= 4 => Leq(call.perturbed[i].hi, One)
                /\ call.tornado.rows[i].Parameter = k
                /\ Mul(call.tornado.rows[i].RelChange, E_b)
                       = QMax(QAbs(Sub(E_lo, E_b)), QAbs(Sub(E_hi, E_b)))

\* C6 witness: a completed tornado loop in which the cap at 1 takes effect
\* (a1 = 1) and a1 has a positive impact.
C6_Witness ==
    /\ call.fn = "tornado" /\ call.tornado.raised = "none"
    /\ params.a1 = One
    /\ Less(Zero, call.tornado.rows[1].RelChange)
    /\ Less(Zero, call.tornado.rows[7].RelChange)

\* C7: the output is all (parameter, impact) pairs sorted by impact in
\* descending order, pairs of equal impact in iteration order (a1, a2, a3,
\* b0, CR, PP, L).
C7_StableDescending ==
    (call.fn = "tornado" /\ call.tornado.raised = "none") =>
        LET df == call.df_tornado
            pos(r) == CHOOSE i \in 1..Len(sens_keys) : sens_keys[i] = r.Parameter
        IN  /\ Len(df) = Len(call.tornado.rows)
            /\ \A i \in 1..Len(df) : \E j \in 1..Len(df) : df[j] = call.tornado.rows[i]
            /\ \A i, j \in 1..Len(df) :
                   i < j => \/ Less(df[j].RelChange, df[i].RelChange)
                            \/ /\ df[j].RelChange = df[i].RelChange
                               /\ pos(df[i]) < pos(df[j])

----------------------------------------------------------------------------
(* Properties of the cached operations across script runs, checked under   *)
(* Spec.                                                                   *)

\* C8: after any sequence of parameter changes and script reruns, with
\* cache hits, misses and 900-second expiries in any order, the Monte Carlo
\* arrays, the Sobol table and the elasticity and tornado results of a run
\* are exactly those computed from the parameter set and sample count
\* current in that run, never those of an earlier, different parameter set.
C8_CacheSoundness ==
    page.run > 0 =>
        LET b  == Baseline(params)
            el == IF b.raised # "none" THEN b ELSE elasticities(params, b)
        IN  /\ page.mc = run_mc(params, params.sample_n)
            /\ page.df_sobol = run_sobol(params, SobolDefaultN, params).df
            /\ page.baseline = b
            /\ page.elasticities = el
            /\ page.tornado = IF el.raised # "none" THEN el
                              ELSE tornado_loop(params, b.E_total)

\* C8 witness: a run served from both caches by entries an earlier run
\* stored, after a run with a different parameter set whose entries are
\* still cached.
C8_Witness ==
    /\ page.run > 0
    /\ page.mc_hit /\ page.sobol_hit
    /\ \E e \in mc_cache : e.key # cache_key(params, params.sample_n)
    /\ \E e \in sobol_cache : e.key # cache_key(params, SobolDefaultN)

----------------------------------------------------------------------------
(* Properties of the operations as functions, checked under SpecCalls.     *)

\* Two invocations of the same operation with equal arguments: the kept one
\* and the latest one.
SameCall ==
    IF held = NoCall \/ call = NoCall THEN FALSE
    ELSE held.fn = call.fn /\ held.args = call.args

\* C9: each of compute_metrics, run_mc, run_sobol and symbolic_derivatives
\* is a function of its arguments and seed alone: two invocations with
\* equal arguments return equal results whatever the module-level `params`
\* or any other ambient state holds at the time of the call.
C9_Purity == SameCall => held.res = call.res

\* C10: two calls to run_mc with the same parameter set and the same N
\* return identical E_total, S, C and loss-unit arrays, element for
\* element, regardless of what other calls ran in between.
C10_Reproducibility ==
    (SameCall /\ call.fn = "run_mc") =>
        /\ Len(held.res.Evals) = Len(call.res.Evals)
        /\ \A i \in 1..Len(call.res.Evals) :
               /\ held.res.Evals[i] = call.res.Evals[i]
               /\ held.res.Svals[i] = call.res.Svals[i]
               /\ held.res.Cvals[i] = call.res.Cvals[i]
               /\ held.res.Ls[i] = call.res.Ls[i]

\* C10 witness: two run_mc calls with equal arguments, both computed rather
\* than served from the cache, with another call in between that reseeded
\* NumPy's global generator.
C10_Witness ==
    /\ SameCall /\ call.fn = "run_mc"
    /\ ~held.hit /\ ~call.hit
    /\ held.between >= 1
    /\ np_random # 0
    /\ Len(call.res.Evals) = ArrayLen(call.args[2])

----------------------------------------------------------------------------
(* Properties of the sensitivities and of the concrete scenarios.          *)

\* Two standardised sensitivities are the same number.
SameStandardised(u, v) ==
    IF "coef" \in DOMAIN u /\ "coef" \in DOMAIN v
    THEN /\ u.coef = v.coef
         /\ u.sigma_E = v.sigma_E
         /\ std_eq(u.sigma_x, v.sigma_x)
    ELSE u = v

\* C11: the standardised sensitivity of x in {C, S, loss_unit} is
\* dE_total/dx * sigma_x / sigma_E_total with sigma_x the standard deviation
\* of the Monte Carlo samples of x itself; for loss_unit that is the standard
\* deviation of the drawn loss_unit samples, not of a product with C.
C11_StandardisedSensitivity ==
    (page.run > 0 /\ page.std.raised = "none") =>
        LET d  == page.elasticities.derivs
            sE == np_std(page.mc.Evals)
        IN  /\ SameStandardised(page.std.std_C,
                                standardised(d.dE_dC, np_std(page.mc.Cvals), sE))
            /\ SameStandardised(page.std.std_S,
                                standardised(d.dE_dS, np_std(page.mc.Svals), sE))
            /\ SameStandardised(page.std.std_L,
                                standardised(d.dE_dL, np_std(page.mc.Ls), sE))

\* x is v to within one unit of the last decimal place shown.
Approx(x, v, unit) == Less(QAbs(Sub(x, v)), unit)

AtDefaults == call # NoCall /\ call.fn = "baseline" /\ params = DefaultParams

\* The exact values of the concrete scenario, common to C12 as stated and as
\* amended.
ScenarioExact(r) ==
    /\ r.raised = "none"
    /\ r.a_total = Q(722, 1000)
    /\ r.b_eff = Q(80, 100)
    /\ r.S = Q(9444, 10000)
    /\ r.T = Num(50)
    /\ r.C = Num(85)
    /\ r.C_loss = Num(85)
    /\ r.E = r.E_total
    /\ r.E = Div(Num(85), Q(9444, 10000))
    /\ call.metrics = [raised |-> "none", S |-> r.S, C |-> r.C, C_loss |-> r.C_loss,
                       E |-> r.E, E_total |-> r.E_total]

\* C12 as stated: at the defaults (0.95, 0.95, 0.80, 0.80, Standard, OnTime,
\* 10, 10, 30, 0.30, 0.40, loss 0) the model yields a_total = 0.722,
\* b_effective = 0.80, S = 0.9444, T_total = 50, C = 85, C_loss = 85 and
\* E = E_total = 85/0.9444, approximately 89.99.
C12_ConcreteScenario ==
    AtDefaults => /\ ScenarioExact(call.res)
                  /\ Approx(call.res.E_total, Q(8999, 100), Q(1, 100))

\* C12 amended: the same exact values, and E = E_total = 85/0.9444 is
\* approximately 90.00.
C12_ConcreteScenarioValue ==
    AtDefaults => /\ ScenarioExact(call.res)
                  /\ Approx(call.res.E_total, Q(9000, 100), Q(1, 100))

C12_Witness == AtDefaults /\ call.res.raised = "none" /\ call.res.C = Num(85)

\* The integer part of a non-negative x; x < y whenever Floor(x) < Floor(y).
Floor(x) == x.n \div x.d

Degraded(p, q, sc) == p = [DefaultParams EXCEPT !.qual = q, !.sched = sc]

\* C13: Low and Late each apply (time x 2/3, checker x 0.8) independently;
\* the concrete scenario under Low and Late gives b_effective = 0.512,
\* S about 0.8644, T_total about 22.22, C about 37.78 and E_total about
\* 43.70, lower than E_total of the same inputs under Standard/OnTime.
C13_LowLateScenario ==
    /\ (call # NoCall /\ call.fn = "baseline") =>
          \A q \in Grades : \A sc \in Schedules :
              Degraded(params, q, sc) =>
                  LET tq == IF q = "Low" THEN Q(2, 3) ELSE One
                      bq == IF q = "Low" THEN Q(8, 10) ELSE One
                      ts == IF sc = "Late" THEN Q(2, 3) ELSE One
                      bs == IF sc = "Late" THEN Q(8, 10) ELSE One
                      r  == call.res
                  IN  /\ r.raised = "none"
                      /\ r.T = Mul(Mul(Num(50), tq), ts)
                      /\ r.b_eff = Mul(Mul(Q(80, 100), bq), bs)
                      /\ (q = "Low" /\ sc = "Late") =>
                            /\ r.b_eff = Q(512, 1000)
                            /\ Approx(r.S, Q(8644, 10000), Q(1, 10000))
                            /\ Approx(r.T, Q(2222, 100), Q(1, 100))
                            /\ Approx(r.C, Q(3778, 100), Q(1, 100))
                            /\ Approx(r.E_total, Q(4370, 100), Q(1, 100))
    /\ (call # NoCall /\ call.fn = "scenarios" /\ params = DefaultParams) =>
          LET std == call.bars[1].res
              low == call.bars[4].res
          IN  /\ call.bars[1].Scenario = "Std/On"
              /\ call.bars[4].Scenario = "Low/Late"
              /\ low.raised = "none"
              /\ Approx(low.S, Q(8644, 10000), Q(1, 10000))
              /\ Approx(low.C, Q(3778, 100), Q(1, 100))
              /\ Approx(low.E_total, Q(4370, 100), Q(1, 100))
              /\ Floor(low.E_total) < Floor(std.E_total)

C13_Witness ==
    /\ call # NoCall
    /\ call.fn = "scenarios"
    /\ params = DefaultParams
    /\ Floor(call.bars[4].res.E_total) < Floor(call.bars[1].res.E_total)

AllCertain(kw) == kw.a1v = One /\ kw.a2v = One /\ kw.a3v = One /\ kw.bv = One

\* C14: with a1 = a2 = a3 = 1 and b0 = 1, for any grades, ratios, loss_unit
\* and task hours, S = 1 exactly, C_loss = C and E_total = E = C.
C14_CertainSuccess ==
    (call # NoCall /\ call.fn = "compute_metrics" /\ AllCertain(call.base_kw)) =>
        /\ call.base.raised = "none"
        /\ call.base.S = One
        /\ call.base.C_loss = call.base.C
        /\ call.base.E = call.base.C
        /\ call.base.E_total = call.base.C

C14_Witness ==
    /\ call # NoCall
    /\ call.fn = "compute_metrics"
    /\ AllCertain(call.base_kw)
    /\ call.base_kw.qualv = "Low"
    /\ call.base_kw.schedv = "Late"
    /\ Less(Zero, call.base_kw.loss_unit_v)
    /\ Less(Zero, call.base.C)
    /\ call.base.E_total = call.base.C

\* C15: symbolic_derivatives(C, S, l) returns the partial derivatives of
\* E_total = (C + C*l*(1-S))/S at the operating point: dE/dC = (1 + l*(1-S))/S,
\* dE/dl = C*(1-S)/S and dE/dS = [-C*l*S - (C + C*l*(1-S))]/S^2.
C15_PartialDerivatives ==
    (call # NoCall /\ call.fn = "symbolic_derivatives") =>
        LET C == call.args[1]
            S == call.args[2]
            l == call.args[3]
        IN  /\ call.res.dE_dC = Div(Add(One, Mul(l, Sub(One, S))), S)
            /\ call.res.dE_dL = Div(Mul(C, Sub(One, S)), S)
            /\ call.res.dE_dS =
                   Div(Sub(Neg(Mul(Mul(C, l), S)),
                           Add(C, Mul(Mul(C, l), Sub(One, S)))),
                       Mul(S, S))

C15_Witness ==
    /\ call # NoCall
    /\ call.fn = "symbolic_derivatives"
    /\ Less(call.args[2], One)
    /\ Less(Zero, call.args[3])
    /\ Less(call.res.dE_dS, Zero)
    /\ Less(Zero, call.res.dE_dL)

\* E_total as a function of the operating point, S # 0.
E_total_at(C, S, l) == Div(Add(C, Mul(Mul(C, l), Sub(One, S))), S)

\* (E_total(1.01 C) - E_total(C)) / (0.01 E_total(C)), S and l held fixed.
FiniteDifferenceC(C, S, l) ==
    Div(Sub(E_total_at(Mul(Q(101, 100), C), S, l), E_total_at(C, S, l)),
        Mul(Q(1, 100), E_total_at(C, S, l)))

PositivePoint ==
    /\ page.run > 0
    /\ page.elasticities.raised = "none"
    /\ Less(Zero, page.baseline.S)
    /\ Less(Zero, page.baseline.E_total)

\* C16: at every operating point with S > 0 and E_total > 0 the elasticity
\* of C, dE_total/dC * C / E_total, equals the finite-difference estimate
\* (E_total(1.01 C) - E_total(C)) / (0.01 E_total(C)).
C16_ElasticityIdentity ==
    PositivePoint =>
        LET b == page.baseline
        IN  /\ page.elasticities.rel_C =
                   Div(Mul(page.elasticities.derivs.dE_dC, b.C), b.E_total)
            /\ page.elasticities.rel_C = FiniteDifferenceC(b.C, b.S, params.loss_unit)

C16_Witness ==
    /\ PositivePoint
    /\ Less(page.baseline.S, One)
    /\ Less(Zero, params.loss_unit)
    /\ page.elasticities.rel_C = FiniteDifferenceC(page.baseline.C, page.baseline.S,
                                                   params.loss_unit)

----------------------------------------------------------------------------
(* Properties of the Monte Carlo sampler, checked under Spec on the runs   *)
(* that execute run_mc (the cache misses).                                *)

Sampled == page.run > 0 /\ ~page.mc_hit
Between(x, lo, hi) == Leq(lo, x) /\ Leq(x, hi)

\* The samples of one of the three conditional parameters, baseline b.
ZeroBaselineRule(row, name, b) ==
    IF IsZero(b)
    THEN row[name] = Zero /\ row.drawn[name] = 0
    ELSE Between(row[name], Mul(Q(8, 10), b), Mul(Q(12, 10), b))

\* C17: for each of cross_check_ratio, prep_post_ratio and loss_unit, a
\* baseline of exactly 0 makes every sample 0 with no random draw, and a
\* positive baseline b puts every sample in [0.8 b, 1.2 b].
C17_ZeroBaseline ==
    /\ Sampled =>
          \A i \in 1..Len(page.mc_locals) :
              /\ ZeroBaselineRule(page.mc_locals[i], "CRs", params.cross_ratio)
              /\ ZeroBaselineRule(page.mc_locals[i], "PPs", params.prep_post_ratio)
              /\ ZeroBaselineRule(page.mc_locals[i], "Ls", params.loss_unit)
    /\ page.run > 0 =>
          \A i \in 1..Len(page.mc.Ls) :
              IF IsZero(params.loss_unit)
              THEN page.mc.Ls[i] = Zero
              ELSE Between(page.mc.Ls[i], Mul(Q(8, 10), params.loss_unit),
                           Mul(Q(12, 10), params.loss_unit))

C17_Witness ==
    /\ Sampled
    /\ IsZero(params.cross_ratio)
    /\ Less(Zero, params.loss_unit)
    /\ page.mc_locals[1].CRs = Zero
    /\ \E i \in 1..Len(page.mc_locals) : page.mc_locals[i].Ls # params.loss_unit

\* C18: every sample of a1, a2, a3 lies in [0, 1], every sample of b0 in
\* [max(0, b0 - 0.10), min(1, b0 + 0.10)], every sample of t1, t2, t3 is at
\* least 1; every sampled S lies in [0, 1] and every sampled C is positive.
C18_SampleDomains ==
    /\ Sampled =>
          \A i \in 1..Len(page.mc_locals) :
              LET row == page.mc_locals[i]
              IN  /\ Between(row.a1s, Zero, One)
                  /\ Between(row.a2s, Zero, One)
                  /\ Between(row.a3s, Zero, One)
                  /\ Between(row.b0s, QMax(Zero, Sub(params.b0, Q(10, 100))),
                             QMin(One, Add(params.b0, Q(10, 100))))
                  /\ Leq(One, row.t1s)
                  /\ Leq(One, row.t2s)
                  /\ Leq(One, row.t3s)
    /\ page.run > 0 =>
          \A i \in 1..Len(page.mc.Svals) :
              /\ Between(page.mc.Svals[i], Zero, One)
              /\ Less(Zero, page.mc.Cvals[i])

C18_Witness ==
    /\ Sampled
    /\ IsZero(params.T1)
    /\ page.mc_locals[1].t1s = One
    /\ params.a1 = One
    /\ \E i \in 1..Len(page.mc_locals) : page.mc_locals[i].a1s = One

----------------------------------------------------------------------------
(* The inline copies of the cost formula against compute_metrics, checked  *)
(* under Spec.                                                             *)

\* The keywords of compute_metrics for one row of drawn Monte Carlo values,
\* with the grades of the sidebar.
RowKeywords(row, p) ==
    [a1v |-> row.a1s, a2v |-> row.a2s, a3v |-> row.a3s, bv |-> row.b0s,
     cross_ratio_v |-> row.CRs, prep_post_ratio_v |-> row.PPs,
     loss_unit_v |-> row.Ls, qualv |-> p.qual, schedv |-> p.sched,
     t1v |-> row.t1s, t2v |-> row.t2s, t3v |-> row.t3s]

\* The keywords of compute_metrics for one Sobol design row.
DesignKeywords(x, p) ==
    [a1v |-> x[1], a2v |-> x[2], a3v |-> x[3], bv |-> x[4],
     cross_ratio_v |-> x[5], prep_post_ratio_v |-> x[6], loss_unit_v |-> x[7],
     qualv |-> p.qual, schedv |-> p.sched, t1v |-> x[8], t2v |-> x[9], t3v |-> x[10]]

Agrees(m, S, C, E_total) ==
    m.raised = "none" /\ m.S = S /\ m.C = C /\ m.E_total = E_total

\* C19: for each sample index of run_mc, each design row of run_sobol and the
\* Section 8 baseline, the S, C and E_total computed inline equal what
\* compute_metrics returns for the same primitive inputs with the baseline's
\* quality and schedule grades.
C19_InlineAgreement ==
    /\ Sampled =>
          \A i \in 1..Len(page.mc_locals) :
              Agrees(compute_metrics(RowKeywords(page.mc_locals[i], params)),
                     page.mc.Svals[i], page.mc.Cvals[i], page.mc.Evals[i])
    /\ (page.run > 0 /\ ~page.sobol_hit) =>
          \A r \in 1..Len(page.sobol_locals.X) :
              /\ Agrees(compute_metrics(DesignKeywords(page.sobol_locals.X[r], params)),
                        page.sobol_locals.rows[r].Sarr, page.sobol_locals.rows[r].Cbase,
                        page.sobol_locals.rows[r].E_tot)
              /\ page.df_sobol.E_tot[r] = page.sobol_locals.rows[r].E_tot
    /\ page.run > 0 =>
          LET m == compute_metrics(baseline_kw(params))
          IN  IF page.baseline.raised = "none"
              THEN Agrees(m, page.baseline.S, page.baseline.C, page.baseline.E_total)
              ELSE m.raised = page.baseline.raised

C19_Witness ==
    /\ Sampled
    /\ ~page.sobol_hit
    /\ params.qual = "Low"
    /\ params.sched = "OnTime"
    /\ Less(Zero, params.loss_unit)
    /\ page.baseline.raised = "none"
    /\ page.mc.Evals[1] =
           compute_metrics(RowKeywords(page.mc_locals[1], params)).E_total
    /\ page.sobol_locals.rows[1].E_tot =
           compute_metrics(DesignKeywords(page.sobol_locals.X[1], params)).E_total

----------------------------------------------------------------------------
(* The Sobol design size, checked under SpecDesign.                        *)

IsPowerOfTwo(n) == \E k \in 0..30 : n = 2 ^ k

\* C20: for every requested N >= 1 the design size 2^ceil(log2 N) is a power
\* of two with N <= N_design < 2 N, and the adjustment notice is shown
\* exactly when N_design differs from N.
C20_DesignSize ==
    (call # NoCall /\ call.fn = "run_sobol") =>
        LET N        == call.args[2]
            N_design == call.res.df.N
        IN  /\ IsPowerOfTwo(N_design)
            /\ N <= N_design
            /\ N_design < 2 * N
            /\ call.res.info <=> (N_design # N)

C20_Witness ==
    /\ call # NoCall
    /\ call.fn = "run_sobol"
    /\ call.args[2] = 5
    /\ call.res.df.N = 8
    /\ call.res.info

----------------------------------------------------------------------------
(* Pagination in fetch_changes, checked under FairSpecFetch.               *)

\* A page that ends the pagination: empty, or its last element carries no
\* truthy _more_changes flag.
LastPage(chunk) ==
    \/ chunk = <<>>
    \/ "_more_changes" \notin DOMAIN chunk[Len(chunk)]
    \/ chunk[Len(chunk)]._more_changes # TRUE

RECURSIVE Concatenation(_)
Concatenation(pages) ==
    IF pages = <<>> THEN <<>> ELSE pages[1] \o Concatenation(Tail(pages))

PaginationSafety ==
    InFetch =>
        LET sent == Len(call.requests)
            got  == Len(call.pages)
        IN  /\ \A k \in 1..sent :
                   call.requests[k] =
                       [project |-> call.project, n |-> 100, S |-> 100 * (k - 1)]
            /\ sent = IF call.pc = "get" THEN got + 1 ELSE got
            /\ call.out = Concatenation(call.pages)
            /\ \A k \in 1..(got - 1) : ~LastPage(call.pages[k])
            /\ call.pc = "get" => \A k \in 1..got : ~LastPage(call.pages[k])
            /\ call.pc = "returned" =>
                   /\ got > 0
                   /\ LastPage(call.pages[got])
                   /\ call.res = Concatenation(call.pages)

LastPageReceived ==
    InFetch /\ call.pages # <<>> /\ LastPage(call.pages[Len(call.pages)])

FetchReturned == InFetch /\ call.pc = "returned"

\* C21: fetch_changes requests the start offsets 0, 100, 200, ... in order,
\* one per page, appends each page in order, stops after the first page
\* that is empty or whose last element has no truthy _more_changes flag,
\* returns the concatenation of the pages received, and terminates exactly
\* when the server eventually returns such a page.
C21_Pagination ==
    /\ []PaginationSafety
    /\ [](FetchReturned => LastPageReceived)
    /\ LastPageReceived ~> FetchReturned

C21_Witness ==
    /\ FetchReturned
    /\ Len(call.requests) = 3
    /\ call.requests[3].S = 200
    /\ call.pages[3] = <<>>
    /\ Len(call.res) = 3

====
